---- MODULE Spec2Model ----
(***************************************************************************)
(* A model of the Twilio ConversationRelay questionnaire server            *)
(* (relay_handlers.py, main.py, ai_utils.py).                              *)
(*                                                                         *)
(* Two independent subsystems share the process:                           *)
(*   - the /ws questionnaire relay (specification Spec, and SilenceSpec,   *)
(*     MalformedSpec and ReplacedSpec with restricted inputs): websocket   *)
(*     connections, the per-call session store call_states, the silence    *)
(*     watchdog tasks, the answers directory and the Twilio hangup;        *)
(*   - the /transcription, /summary and /compliance pipeline               *)
(*     (specifications FanoutSpec, DedupSpec, PipelineSpec and             *)
(*     ContextSpec).                                                       *)
(*                                                                         *)
(* The server runs on one asyncio event loop: a handler runs atomically    *)
(* from one await that can suspend to the next.  Each action below is one  *)
(* such atomic stretch of a handler.                                       *)
(***************************************************************************)
EXTENDS Integers, Sequences, FiniteSets, TLC

(***************************************************************************)
(* Bounds of the model.                                                    *)
(***************************************************************************)
\* A setup frame arrives only while fewer than MaxTasks watchdog tasks are alive
\* (every setup can leave the task of the session it replaces alive).
MaxTasks == 2

\* The /ws connections that can be open at the same time.
Conns == {1, 2}

\* Python's None, and the empty string.
None == "None"
Empty == ""

(***************************************************************************)
(* Text.  Raw frame fields are sequences of characters, so that str.strip  *)
(* is computed and not assumed.                                            *)
(***************************************************************************)
\* Characters that str.strip removes.
Whitespace == {" ", "\n"}

RECURSIVE LStrip(_)
LStrip(s) == IF s # <<>> /\ Head(s) \in Whitespace THEN LStrip(Tail(s)) ELSE s

RECURSIVE RStrip(_)
RStrip(s) ==
    IF s # <<>> /\ s[Len(s)] \in Whitespace THEN RStrip(SubSeq(s, 1, Len(s) - 1)) ELSE s

\* str.strip()
Strip(s) == RStrip(LStrip(s))

\* The callSid values a setup frame can carry (a missing callSid reads as "").
RawCallSids == {<<>>, <<" ">>, <<"A">>, <<" ", "A">>}

\* The voicePrompt values a prompt frame can carry (a missing one reads as "").
RawVoicePrompts == {<<>>, <<" ">>, <<"x">>}

\* The utteranceUntilInterrupt values an interrupt frame can carry.
RawUtterances == {<<>>, <<"x">>}

(***************************************************************************)
(* relay_handlers.py: constants.                                           *)
(***************************************************************************)
QUESTIONNAIRE ==
    << [id |-> "name", prompt |-> "What is your name?", type |-> "name"],
       [id |-> "public_company_employment",
        prompt |-> "Are you currently employed at a public company? Please answer yes or no.",
        type |-> "yes_no"],
       [id |-> "data_center_construction_experience",
        prompt |-> "What is your experience in data center construction?",
        type |-> "topic_text"],
       [id |-> "data_center_construction_company",
        prompt |-> "What datacenter construction company you are working in?",
        type |-> "topic_entity"],
       [id |-> "location_selection_experience",
        prompt |-> "On a scale of one to ten, what is your experience dealing with data center location selection?",
        type |-> "scale_1_10"] >>

COMPLETION_MESSAGE == "Thank you. The questionnaire is complete. You can hang up safely now."

\* The invalid-answer limit of handle_prompt_message.
InvalidLimit == 3

QuestionIds == {QUESTIONNAIRE[i].id : i \in 1..Len(QUESTIONNAIRE)}

(***************************************************************************)
(* ai_utils.py: validate_questionnaire_answer.  The model's reply is the   *)
(* input; "error" is a failed API call or a reply that is not JSON.        *)
(***************************************************************************)
\* The normalized answers the model gives to a question of a type.
NormalizedAnswers(type) ==
    CASE type = "name" -> {"Dana"}
      [] type = "yes_no" -> {"yes"}
      [] type = "topic_text" -> {"built two halls"}
      [] type = "topic_entity" -> {"AECOM, in list"}
      [] type = "scale_1_10" -> {"7"}

LlmReplies(type) ==
    {[kind |-> "error"]}
    \cup {[kind |-> "json", is_valid |-> TRUE, normalized_answer |-> n, error_message |-> Empty] :
            n \in NormalizedAnswers(type)}
    \cup {[kind |-> "json", is_valid |-> FALSE, normalized_answer |-> None,
            error_message |-> Empty]}

\* The (is_valid, normalized_answer, error_message) triple, or a raised exception.
validate_questionnaire_answer(reply) ==
    IF reply.kind = "error" THEN [raised |-> TRUE]
    ELSE [raised |-> FALSE,
          is_valid |-> reply.is_valid,
          normalized_answer |-> reply.normalized_answer,
          error_message |->
              IF ~reply.is_valid /\ reply.error_message = Empty
              THEN "Please try answering that question again."
              ELSE reply.error_message]

(***************************************************************************)
(* State of the relay.                                                     *)
(***************************************************************************)
VARIABLES
    call_states,        \* main.call_states: callSid -> session dict
    tasks,              \* the silence watchdog tasks that are not done: task id -> callSid
    ws_pc,              \* per /ws connection: where ws_endpoint is suspended
    ws_call_sid,        \* per /ws connection: the local call_sid of ws_endpoint
    ws_sending,         \* per /ws connection: the assistant message being sent, or None
    answers_dir,        \* ANSWERS_DIR: callSid -> the record in <callSid>.json
    effects,            \* history: per session, what finalize did for it, in order
    streak              \* history: per session, the invalid verdicts since the last valid one

relay_vars ==
    <<call_states, tasks, ws_pc, ws_call_sid, ws_sending, answers_dir, effects, streak>>

(***************************************************************************)
(* State of the transcription pipeline.                                    *)
(***************************************************************************)
VARIABLES
    compliance_clients,          \* main.compliance_clients: the connected observers
    inbound_transcript_context,  \* main.inbound_transcript_context: CallSid -> deque
    compliance_open,             \* the observer websockets whose endpoint is running
    http,                        \* per webhook request: where its handler is
    clock,                       \* history: the time, in ticks
    arrivals                     \* history: the transcription events, as they arrived

tap_vars == <<compliance_clients, inbound_transcript_context, compliance_open, http>>

tap_history == <<clock, arrivals>>

pipeline_vars == <<tap_vars, tap_history>>

vars == <<relay_vars, tap_vars, tap_history>>

\* The outcomes of the external calls of one finalize: the write of the record
\* returns or raises; the environment holds Twilio credentials or not
\* ("no_client", read by _get_twilio_client), and with them the request returns
\* or raises.  After a write that raises nothing more is called.
IoOutcomes ==
    {[persist |-> "ok", hangup |-> "ok"], [persist |-> "ok", hangup |-> "raise"],
     [persist |-> "ok", hangup |-> "no_client"], [persist |-> "raise", hangup |-> "ok"]}

\* f without the key k.
Remove(f, k) == [x \in DOMAIN f \ {k} |-> f[x]]

\* f with the key k set to v (a dict assignment).
Put(f, k, v) == [x \in DOMAIN f \cup {k} |-> IF x = k THEN v ELSE f[x]]

\* The mutable objects the handlers touch, passed through them as one value.
World ==
    [cs |-> call_states, tasks |-> tasks, dir |-> answers_dir, eff |-> effects,
     streak |-> streak]

\* "silence_task": None
NoTask == 0

\* The id create_task gives a new task: the least one no live task has.
NewTask(ts) == CHOOSE i \in 1..(Cardinality(DOMAIN ts) + 1) : i \notin DOMAIN ts

(***************************************************************************)
(* relay_handlers.py: the finalize path.                                   *)
(***************************************************************************)
\* Cancels the state's task when it is a Task that is not done; clears the field.
_cancel_silence_timer(state, ts) ==
    [state |-> [state EXCEPT !.silence_task = NoTask],
     tasks |-> IF state.silence_task \in DOMAIN ts THEN Remove(ts, state.silence_task) ELSE ts]

\* Writes <call_sid>.json, replacing what was there.
_persist_answers(dir, call_sid, answers, status, termination_reason) ==
    Put(dir, call_sid,
        [call_sid |-> call_sid, answers |-> answers, status |-> status,
         termination_reason |-> termination_reason])

\* Without a client there is no request; otherwise calls(...).update is attempted
\* and returns or raises.
_hangup_call_via_twilio(outcome) ==
    IF outcome = "no_client" THEN [attempted |-> FALSE, raised |-> FALSE]
    ELSE [attempted |-> TRUE, raised |-> outcome = "raise"]

\* Latch with the latch left unset.
LatchForgotten(state, status, termination_reason) ==
    [state EXCEPT !.termination_reason = termination_reason,
                  !.status = status,
                  !.completed = (status = "completed")]

\* Latch with the termination reason left as it was.
LatchNoReason(state, status, termination_reason) ==
    [state EXCEPT !.terminated = TRUE,
                  !.status = status,
                  !.completed = (status = "completed")]

\* Lines 137-140: the latch and the outcome of the session.
Latch(state, status, termination_reason) ==
    [state EXCEPT !.terminated = TRUE,
                  !.termination_reason = termination_reason,
                  !.status = status,
                  !.completed = (status = "completed")]

\* PersistThenHangup with the two calls in the other order.
HangupThenPersist(w, call_sid, status, termination_reason, io) ==
    LET h == _hangup_call_via_twilio(io.hangup)
        w1 == IF ~h.attempted THEN w
              ELSE [w EXCEPT !.eff[call_sid] =
                       Append(@, IF h.raised THEN "hangup_error" ELSE "hangup")]
    IN  IF io.persist = "raise"
        THEN [w |-> [w1 EXCEPT !.eff[call_sid] = Append(@, "write_error")], raised |-> TRUE]
        ELSE [w |-> [w1 EXCEPT
                       !.dir = _persist_answers(w.dir, call_sid, w.cs[call_sid].answers,
                                                status, termination_reason),
                       !.eff[call_sid] = Append(@, "write")],
              raised |-> FALSE]

\* PersistThenHangup without the try/except around the hangup request.
HangupUncaught(w, call_sid, status, termination_reason, io) ==
    IF io.persist = "raise"
    THEN [w |-> [w EXCEPT !.eff[call_sid] = Append(@, "write_error")], raised |-> TRUE]
    ELSE
        LET w1 == [w EXCEPT
                     !.dir = _persist_answers(w.dir, call_sid, w.cs[call_sid].answers,
                                              status, termination_reason),
                     !.eff[call_sid] = Append(@, "write")]
            h == _hangup_call_via_twilio(io.hangup)
        IN  [w |-> IF ~h.attempted THEN w1
                   ELSE [w1 EXCEPT !.eff[call_sid] =
                            Append(@, IF h.raised THEN "hangup_error" ELSE "hangup")],
             raised |-> h.raised]

\* Lines 143-149: the record is written, then the hangup is requested inside
\* try/except Exception.  An exception of the write leaves _terminate_call.
\* The result is the world after them and whether an exception left.
PersistThenHangup(w, call_sid, status, termination_reason, io) ==
    IF io.persist = "raise"
    THEN [w |-> [w EXCEPT !.eff[call_sid] = Append(@, "write_error")], raised |-> TRUE]
    ELSE
        LET w1 == [w EXCEPT
                     !.dir = _persist_answers(w.dir, call_sid, w.cs[call_sid].answers,
                                              status, termination_reason),
                     !.eff[call_sid] = Append(@, "write")]
            h == _hangup_call_via_twilio(io.hangup)
        IN  [w |-> IF ~h.attempted THEN w1
                   ELSE [w1 EXCEPT !.eff[call_sid] =
                            Append(@, IF h.raised THEN "hangup_error" ELSE "hangup")],
             raised |-> FALSE]

\* The result is the world after the call and whether an exception left it.
_terminate_call(w, call_sid, spoken_message, status, termination_reason, io) ==
    IF call_sid \notin DOMAIN w.cs THEN [w |-> w, raised |-> FALSE]
    ELSE IF w.cs[call_sid].terminated THEN [w |-> w, raised |-> FALSE]
    ELSE
        LET c == _cancel_silence_timer(Latch(w.cs[call_sid], status, termination_reason),
                                       w.tasks)
            w1 == [w EXCEPT !.cs[call_sid] = c.state, !.tasks = c.tasks]
        IN  PersistThenHangup(w1, call_sid, status, termination_reason, io)

\* _start_or_reset_silence_timer without the check of the latch.
StartTimerUnlatched(w, call_sid) ==
    IF call_sid \notin DOMAIN w.cs THEN w
    ELSE
        LET c == _cancel_silence_timer(w.cs[call_sid], w.tasks)
            t == NewTask(c.tasks)
        IN  [w EXCEPT !.cs[call_sid] = [c.state EXCEPT !.silence_task = t],
                      !.tasks = Put(c.tasks, t, call_sid)]

\* _start_or_reset_silence_timer that cancels and creates no task.
StartTimerNever(w, call_sid) ==
    IF call_sid \notin DOMAIN w.cs THEN w
    ELSE IF w.cs[call_sid].terminated THEN w
    ELSE
        LET c == _cancel_silence_timer(w.cs[call_sid], w.tasks)
        IN  [w EXCEPT !.cs[call_sid] = c.state, !.tasks = c.tasks]

\* Creates the watchdog task of a session that exists and is not terminated.
_start_or_reset_silence_timer(w, call_sid) ==
    IF call_sid \notin DOMAIN w.cs THEN w
    ELSE IF w.cs[call_sid].terminated THEN w
    ELSE
        LET c == _cancel_silence_timer(w.cs[call_sid], w.tasks)
            t == NewTask(c.tasks)
        IN  [w EXCEPT !.cs[call_sid] = [c.state EXCEPT !.silence_task = t],
                      !.tasks = Put(c.tasks, t, call_sid)]

\* The result adds `say`: the text handed to send_assistant_message, or None.
send_current_question(w, call_sid, io) ==
    IF call_sid \notin DOMAIN w.cs THEN [w |-> w, raised |-> FALSE, say |-> None]
    ELSE IF w.cs[call_sid].terminated THEN [w |-> w, raised |-> FALSE, say |-> None]
    ELSE IF w.cs[call_sid].question_index >= Len(QUESTIONNAIRE)
    THEN LET r == _terminate_call(w, call_sid, COMPLETION_MESSAGE, "completed", "completed", io)
         IN  [w |-> r.w, raised |-> r.raised, say |-> None]
    ELSE [w |-> w, raised |-> FALSE,
          say |-> QUESTIONNAIRE[w.cs[call_sid].question_index + 1].prompt]

\* The session dict of a setup frame.
FreshSession ==
    [question_index |-> 0,
     answers |-> <<>>,
     completed |-> FALSE,
     status |-> "in_progress",
     termination_reason |-> Empty,
     invalid_attempts_current_question |-> 0,
     terminated |-> FALSE,
     silence_task |-> NoTask]

\* handle_setup_message that keeps the session the identifier already has.
SetupKeepsSession(w, raw) ==
    LET call_sid == Strip(raw)
    IN  IF call_sid = <<>> THEN [w |-> w, call_sid |-> <<>>]
        ELSE IF call_sid \in DOMAIN w.cs THEN [w |-> w, call_sid |-> call_sid]
        ELSE [w |-> [w EXCEPT !.cs = Put(w.cs, call_sid, FreshSession),
                              !.eff = Put(w.eff, call_sid, <<>>),
                              !.streak = Put(w.streak, call_sid, 0)],
              call_sid |-> call_sid]

\* The result is the world after the call and the call_sid returned (Empty for None).
handle_setup_message(w, raw) ==
    LET call_sid == Strip(raw)
    IN  IF call_sid = <<>> THEN [w |-> w, call_sid |-> <<>>]
        ELSE [w |-> [w EXCEPT !.cs = Put(w.cs, call_sid, FreshSession),
                              !.eff = Put(w.eff, call_sid, <<>>),
                              !.streak = Put(w.streak, call_sid, 0)],
              call_sid |-> call_sid]

\* Pops the session of the connection's call_sid and cancels its task.
cleanup_session(w, call_sid) ==
    IF call_sid = <<>> THEN w
    ELSE IF call_sid \notin DOMAIN w.cs THEN w
    ELSE [w EXCEPT !.cs = Remove(w.cs, call_sid),
                   !.tasks = _cancel_silence_timer(w.cs[call_sid], w.tasks).tasks,
                   !.eff = Remove(w.eff, call_sid),
                   !.streak = Remove(w.streak, call_sid)]

(***************************************************************************)
(* relay_handlers.py: handle_prompt_message, up to its first await that    *)
(* sends.  The result is the world, whether an exception left the handler, *)
(* the text handed to send_assistant_message (or None) and the place the   *)
(* handler is suspended at while it sends.                                 *)
(***************************************************************************)
\* Returned with a message spoken before the return.
ReturnedSpeaking(w) ==
    [w |-> w, raised |-> FALSE, say |-> "Please wait for the first question.",
     at |-> "send_error"]

\* An early return of handle_prompt_message: nothing changed, nothing to send.
Returned(w) == [w |-> w, raised |-> FALSE, say |-> None, at |-> "recv"]

\* ReachedInvalidLimit with > for >=.
ReachedInvalidLimitLate(invalid_attempts) == invalid_attempts > InvalidLimit

\* Line 302: the invalid-answer limit is reached.
ReachedInvalidLimit(invalid_attempts) == invalid_attempts >= InvalidLimit

\* RecordValidAnswer without the reset of the counter.
RecordValidAnswerNoReset(state, question_index, normalized_answer) ==
    [state EXCEPT !.answers = Put(@, QUESTIONNAIRE[question_index + 1].id, normalized_answer),
                  !.question_index = question_index + 1]

\* RecordValidAnswer storing under the id of the question that follows.
RecordValidAnswerNextId(state, question_index, normalized_answer) ==
    [state EXCEPT !.invalid_attempts_current_question = 0,
                  !.answers = Put(@, QUESTIONNAIRE[question_index + 2].id, normalized_answer),
                  !.question_index = question_index + 1]

\* Lines 323-327: the counter is reset, the answer stored under the question's id
\* and the index advanced.
RecordValidAnswer(state, question_index, normalized_answer) ==
    [state EXCEPT !.invalid_attempts_current_question = 0,
                  !.answers = Put(@, QUESTIONNAIRE[question_index + 1].id, normalized_answer),
                  !.question_index = question_index + 1]

\* ValidationTrouble counting the failed validation as an invalid attempt.
ValidationTroubleCounted(w, call_sid, question) ==
    [w |-> [w EXCEPT !.cs[call_sid].invalid_attempts_current_question = @ + 1],
     raised |-> FALSE,
     say |-> "I had trouble validating that response. " \o question.prompt,
     at |-> "send_error"]

\* Lines 291-297: the validator raised; the handler says so, asks the question
\* again and returns.
ValidationTrouble(w, call_sid, question) ==
    [w |-> w, raised |-> FALSE,
     say |-> "I had trouble validating that response. " \o question.prompt,
     at |-> "send_error"]

handle_prompt_message(w, call_sid, raw_voice_prompt, reply, io) ==
    IF call_sid = <<>> THEN Returned(w)
    ELSE IF Strip(raw_voice_prompt) = <<>> THEN Returned(w)
    ELSE IF call_sid \notin DOMAIN w.cs THEN Returned(w)
    ELSE IF w.cs[call_sid].terminated THEN Returned(w)
    ELSE
        LET c == _cancel_silence_timer(w.cs[call_sid], w.tasks)
            w1 == [w EXCEPT !.cs[call_sid] = c.state, !.tasks = c.tasks]
            state == c.state
            question_index == state.question_index
        IN  IF question_index >= Len(QUESTIONNAIRE)
            THEN LET r == _terminate_call(w1, call_sid, COMPLETION_MESSAGE,
                                          "completed", "completed", io)
                 IN  [w |-> r.w, raised |-> r.raised, say |-> None, at |-> "recv"]
            ELSE
            LET question == QUESTIONNAIRE[question_index + 1]
                v == validate_questionnaire_answer(reply)
            IN  IF v.raised
                THEN ValidationTrouble(w1, call_sid, question)
                ELSE IF ~v.is_valid
                THEN
                    LET invalid_attempts == state.invalid_attempts_current_question + 1
                        w2 == [w1 EXCEPT
                                 !.cs[call_sid].invalid_attempts_current_question =
                                     invalid_attempts,
                                 !.streak[call_sid] = @ + 1]
                    IN  IF ReachedInvalidLimit(invalid_attempts)
                        THEN LET r == _terminate_call(w2, call_sid, "invalid answers provided",
                                                      "terminated", "invalid_answers", io)
                             IN  [w |-> r.w, raised |-> r.raised, say |-> None, at |-> "recv"]
                        ELSE
                            LET feedback ==
                                    IF v.error_message # Empty THEN v.error_message
                                    ELSE "That answer does not match this question."
                            IN  [w |-> w2, raised |-> FALSE,
                                 say |-> feedback \o " " \o question.prompt,
                                 at |-> "send_retry"]
                ELSE
                    LET next_index == question_index + 1
                        w2 == [w1 EXCEPT
                                 !.cs[call_sid] =
                                     RecordValidAnswer(state, question_index,
                                                       v.normalized_answer),
                                 !.streak[call_sid] = 0]
                    IN  IF next_index >= Len(QUESTIONNAIRE)
                        THEN LET r == _terminate_call(w2, call_sid, COMPLETION_MESSAGE,
                                                      "completed", "completed", io)
                             IN  [w |-> r.w, raised |-> r.raised, say |-> None, at |-> "recv"]
                        ELSE [w |-> w2, raised |-> FALSE,
                              say |-> QUESTIONNAIRE[next_index + 1].prompt,
                              at |-> "send_next"]

(***************************************************************************)
(* main.py: ws_endpoint.                                                   *)
(***************************************************************************)
Commit(w) ==
    /\ call_states' = w.cs
    /\ tasks' = w.tasks
    /\ answers_dir' = w.dir
    /\ effects' = w.eff
    /\ streak' = w.streak

\* An exception leaves the receive loop: the finally clause runs cleanup_session
\* with the connection's call_sid and the endpoint ends.
Leave(c, w, call_sid) ==
    /\ Commit(cleanup_session(w, call_sid))
    /\ ws_pc' = [ws_pc EXCEPT ![c] = "closed"]
    /\ ws_call_sid' = [ws_call_sid EXCEPT ![c] = <<>>]
    /\ ws_sending' = [ws_sending EXCEPT ![c] = None]

\* What follows a handler stretch r that ran with the connection's call_sid bound
\* to call_sid: the exception leaves, or the message goes out and the handler is
\* suspended in send_assistant_message, or the loop receives again.
Continue(c, r, call_sid, at, send) ==
    IF r.raised \/ (r.say # None /\ send = "raise")
    THEN Leave(c, r.w, call_sid)
    ELSE /\ Commit(r.w)
         /\ ws_call_sid' = [ws_call_sid EXCEPT ![c] = call_sid]
         /\ ws_sending' = [ws_sending EXCEPT ![c] = r.say]
         /\ ws_pc' = [ws_pc EXCEPT ![c] = IF r.say # None THEN at ELSE "recv"]

\* websocket.accept()
WsAccept(c) ==
    /\ ws_pc[c] = "closed"
    /\ ws_pc' = [ws_pc EXCEPT ![c] = "recv"]
    /\ UNCHANGED <<call_states, tasks, ws_call_sid, ws_sending, answers_dir, effects,
                   streak>>

\* The outcomes of external calls are inputs of a handler stretch; an outcome the
\* stretch r never asks for is fixed, so that it is not enumerated: the send when
\* nothing is said, the finalize outcomes when r0, the stretch under Io0, is r.
Io0 == [persist |-> "ok", hangup |-> "ok"]

Asked(r, r0, io, send) ==
    /\ (r.say = None \/ r.raised) => send = "ok"
    /\ r = r0 => io = Io0

\* A frame of type "setup".
WsSetup(c, raw, io, send) ==
    /\ ws_pc[c] = "recv"
    /\ Cardinality(DOMAIN tasks) < MaxTasks
    /\ LET h == handle_setup_message(World, raw)
       IN  IF h.call_sid = <<>>
           THEN /\ io = Io0
                /\ send = "ok"
                /\ UNCHANGED <<call_states, tasks, ws_pc, ws_call_sid, ws_sending,
                               answers_dir, effects, streak>>
           ELSE LET r == send_current_question(h.w, h.call_sid, io)
                IN  /\ Asked(r, send_current_question(h.w, h.call_sid, Io0), io, send)
                    /\ Continue(c, r, h.call_sid, "send_question", send)

\* A frame of type "prompt".
WsPrompt(c, raw, reply, io, send) ==
    /\ ws_pc[c] = "recv"
    /\ LET r == handle_prompt_message(World, ws_call_sid[c], raw, reply, io)
       IN  /\ Asked(r, handle_prompt_message(World, ws_call_sid[c], raw, reply, Io0),
                    io, send)
           /\ Continue(c, r, ws_call_sid[c], r.at, send)

\* handle_interrupt_message only logs, whatever it is given.
handle_interrupt_message(w, call_sid, raw_utterance) == w

\* A frame of type "interrupt".
WsInterrupt(c, raw) ==
    /\ ws_pc[c] = "recv"
    /\ Commit(handle_interrupt_message(World, ws_call_sid[c], raw))
    /\ UNCHANGED <<ws_pc, ws_call_sid, ws_sending>>

\* A frame that is not JSON (parse_ws_message returns None), or a JSON object of
\* another type: the loop continues.
WsIgnored(c) ==
    /\ ws_pc[c] = "recv"
    /\ UNCHANGED relay_vars

\* A frame that is JSON but no object: message.get raises AttributeError.
WsNonObject(c) ==
    /\ ws_pc[c] = "recv"
    /\ Leave(c, World, ws_call_sid[c])

\* receive_text raises WebSocketDisconnect.
WsDisconnect(c) ==
    /\ ws_pc[c] = "recv"
    /\ Leave(c, World, ws_call_sid[c])

\* send_assistant_message returns or raises, and the handler runs on to the
\* next receive_text.
WsSent(c, send) ==
    /\ ws_pc[c] \in {"send_question", "send_error", "send_retry", "send_next"}
    /\ IF send = "raise"
       THEN Leave(c, World, ws_call_sid[c])
       ELSE /\ Commit(IF ws_pc[c] = "send_error" THEN World
                      ELSE _start_or_reset_silence_timer(World, ws_call_sid[c]))
            /\ ws_pc' = [ws_pc EXCEPT ![c] = "recv"]
            /\ ws_sending' = [ws_sending EXCEPT ![c] = None]
            /\ UNCHANGED ws_call_sid

(***************************************************************************)
(* relay_handlers.py: _silence_watchdog.  The sleep of a live task is      *)
(* over; a cancelled task never gets here.                                 *)
(***************************************************************************)
_silence_watchdog(t, io) ==
    /\ t \in DOMAIN tasks
    /\ LET call_sid == tasks[t]
           r == IF call_sid \notin DOMAIN call_states THEN [w |-> World, raised |-> FALSE]
                ELSE IF call_states[call_sid].terminated THEN [w |-> World, raised |-> FALSE]
                ELSE _terminate_call(World, call_sid, "Ahoy!", "terminated", "silence", io)
       IN  \* returning or raising, the task is done
           Commit([r.w EXCEPT !.tasks = Remove(r.w.tasks, t)])
    /\ UNCHANGED <<ws_pc, ws_call_sid, ws_sending>>

RelayInit ==
    /\ call_states = <<>>
    /\ tasks = <<>>
    /\ ws_pc = [c \in Conns |-> "closed"]
    /\ ws_call_sid = [c \in Conns |-> <<>>]
    /\ ws_sending = [c \in Conns |-> None]
    /\ answers_dir = <<>>
    /\ effects = <<>>
    /\ streak = <<>>

SendOutcomes == {"ok", "raise"}

\* The type of the question the session of connection c is at.
CurrentType(c) ==
    LET call_sid == ws_call_sid[c]
    IN  IF call_sid \in DOMAIN call_states
           /\ call_states[call_sid].question_index < Len(QUESTIONNAIRE)
        THEN QUESTIONNAIRE[call_states[call_sid].question_index + 1].type
        ELSE "name"

(***************************************************************************)
(* The transcription pipeline (main.py): the webhooks of the telephony     *)
(* provider, the compliance classifier and the fan-out to the observers.   *)
(* A handler runs without interruption between two awaits; the awaits of   *)
(* the pipeline are the sends of _broadcast_to_compliance.                 *)
(***************************************************************************)
Observers == {"o1", "o2"}

Reqs == {1, 2}

ContextMaxLen == 3

LowerChar(ch) ==
    CASE ch = "A" -> "a"
      [] ch = "B" -> "b"
      [] OTHER -> ch

\* str.lower
Lower(s) == [i \in 1..Len(s) |-> LowerChar(s[i])]

RECURSIVE JoinLines(_)
\* "\n".join(parts)
JoinLines(parts) ==
    IF parts = <<>> THEN <<>>
    ELSE IF Len(parts) = 1 THEN Head(parts)
    ELSE Head(parts) \o <<"\n">> \o JoinLines(Tail(parts))

\* needle in hay, for a non-empty needle
Contains(needle, hay) ==
    \E i \in 0..(Len(hay) - Len(needle)) : SubSeq(hay, i + 1, i + Len(needle)) = needle

RawTranscriptionData ==
    {[kind |-> "missing"]} \cup
    {[kind |-> "dict", transcript |-> t] : t \in {<<" ">>, <<"a">>, <<"B", " ">>}}

TranscriptionPayloads ==
    {[Track |-> "outbound_track", CallSid |-> <<"A">>, TranscriptionData |-> [kind |-> "missing"]]}
    \cup
    {[Track |-> "inbound_track", CallSid |-> sid, TranscriptionData |-> d] :
        sid \in {<<>>, <<"A">>}, d \in RawTranscriptionData}

SummaryPayloads == {[CallSid |-> sid] : sid \in {<<>>, <<"A", " ">>}}

\* What the model returns to the classifier: the API call fails, the content
\* is no JSON, it is JSON but no object, or it is an object.
ClassifierReplies ==
    {[kind |-> "error"], [kind |-> "not_json"], [kind |-> "not_object"],
     [kind |-> "object", is_compliance_violation |-> TRUE, is_list |-> FALSE,
      compliance_violations |-> <<>>],
     [kind |-> "object", is_compliance_violation |-> FALSE, is_list |-> TRUE,
      compliance_violations |-> <<>>],
     [kind |-> "object", is_compliance_violation |-> TRUE, is_list |-> TRUE,
      compliance_violations |-> << <<"a">> >>],
     [kind |-> "object", is_compliance_violation |-> FALSE, is_list |-> TRUE,
      compliance_violations |-> << <<" ", "b">>, <<"B">>, <<"z">>, <<" ">> >>],
     [kind |-> "object", is_compliance_violation |-> TRUE, is_list |-> TRUE,
      compliance_violations |-> << <<"a", "\n", "b">> >>]}

_extract_transcript_text(payload) ==
    IF payload.TranscriptionData.kind # "dict" THEN <<>>
    ELSE Strip(payload.TranscriptionData.transcript)

RECURSIVE KeepGrounded(_, _, _)
\* The loop over raw_violations: a candidate is kept when it is non-empty, it
\* occurs in validation_source and its lower-case form was not seen before.
KeepGrounded(raw_violations, validation_source, seen) ==
    IF raw_violations = <<>> THEN <<>>
    ELSE LET candidate == Strip(Head(raw_violations))
             dedupe_key == Lower(candidate)
             keep == /\ candidate # <<>>
                     /\ Contains(dedupe_key, validation_source)
                     /\ dedupe_key \notin seen
         IN  IF keep
             THEN <<candidate>> \o
                  KeepGrounded(Tail(raw_violations), validation_source, seen \cup {dedupe_key})
             ELSE KeepGrounded(Tail(raw_violations), validation_source, seen)

Verdict(flag, violations) ==
    [raised |-> FALSE, is_compliance_violation |-> flag, compliance_violations |-> violations]

\* ClassifierRaised with the violation flag set.
ClassifierRaisedFlagged ==
    [raised |-> TRUE, is_compliance_violation |-> TRUE, compliance_violations |-> <<>>]

\* The classifier raised: the handler's except clause logs, and the flag and the
\* phrases keep the values they were initialised with.
ClassifierRaised ==
    [raised |-> TRUE, is_compliance_violation |-> FALSE, compliance_violations |-> <<>>]

classify_transcription_compliance(transcript_text, recent_transcripts, reply) ==
    LET cleaned_transcript == Strip(transcript_text)
        stripped == [i \in 1..Len(recent_transcripts) |-> Strip(recent_transcripts[i])]
        cleaned_context == SelectSeq(stripped, LAMBDA snippet : snippet # <<>>)
        validation_source == Lower(JoinLines(<<cleaned_transcript>> \o cleaned_context))
    IN  IF cleaned_transcript = <<>> THEN Verdict(FALSE, <<>>)
        ELSE IF reply.kind \in {"error", "not_object"} THEN ClassifierRaised
        ELSE IF reply.kind = "not_json" THEN Verdict(FALSE, <<>>)
        ELSE IF ~reply.is_list THEN Verdict(FALSE, <<>>)
        ELSE LET compliance_violations ==
                     KeepGrounded(reply.compliance_violations, validation_source, {})
             IN  IF compliance_violations = <<>> THEN Verdict(FALSE, <<>>)
                 ELSE Verdict(TRUE, compliance_violations)

\* deque(maxlen=3).append
DequeAppend(call_context, transcript_text) ==
    IF Len(call_context) = ContextMaxLen
    THEN Append(Tail(call_context), transcript_text)
    ELSE Append(call_context, transcript_text)

IdleRequest == [pc |-> "idle"]

Ok(delivered_clients) == [status |-> "200", ok |-> TRUE, delivered_clients |-> delivered_clients]

ServerError == [status |-> "500"]

\* A broadcast that starts: the snapshot list(compliance_clients) and the
\* locals of _broadcast_to_compliance.  sent_to and classified are history: the
\* observers whose send_text returned, and whether the handler's classifier call
\* returned ("returned"), raised ("raised") or was not made ("skipped").
Broadcast(handler, message, call_sid, transcript_text, clients, classified) ==
    [pc |-> "bcast", handler |-> handler, message |-> message, call_sid |-> call_sid,
     transcript_text |-> transcript_text, snapshot |-> clients, pending |-> clients,
     delivered_clients |-> 0, disconnected_clients |-> {}, sent_to |-> {},
     classified |-> classified]

\* A handler that has returned, with what its broadcast did.
Done(b, response) ==
    [pc |-> "done", handler |-> b.handler, snapshot |-> b.snapshot,
     delivered_clients |-> b.delivered_clients,
     disconnected_clients |-> b.disconnected_clients, sent_to |-> b.sent_to,
     classified |-> b.classified, response |-> response]

SendCountsFailure(b, websocket, outcome) ==
    [b EXCEPT !.pending = @ \ {websocket},
              !.delivered_clients = @ + 1,
              !.disconnected_clients = IF outcome = "ok" THEN @ ELSE @ \cup {websocket},
              !.sent_to = IF outcome = "ok" THEN @ \cup {websocket} ELSE @]

\* One iteration of the loop of _broadcast_to_compliance.
BroadcastIteration(b, websocket, outcome) ==
    IF outcome = "ok"
    THEN [b EXCEPT !.pending = @ \ {websocket},
                   !.delivered_clients = @ + 1,
                   !.sent_to = @ \cup {websocket}]
    ELSE [b EXCEPT !.pending = @ \ {websocket},
                   !.disconnected_clients = @ \cup {websocket}]

\* The discards after the loop.
DiscardDisconnected(clients, disconnected_clients) == clients \ disconnected_clients

\* transcription_webhook after its broadcast returned.
TranscriptionAfterBroadcast(context, b) ==
    IF b.transcript_text # <<>> /\ b.call_sid # <<>>
    THEN IF b.call_sid \in DOMAIN context
         THEN [context |-> Put(context, b.call_sid,
                               DequeAppend(context[b.call_sid], b.transcript_text)),
               response |-> Ok(b.delivered_clients)]
         ELSE [context |-> context, response |-> ServerError]
    ELSE [context |-> context, response |-> Ok(b.delivered_clients)]

\* summary_webhook after its broadcast returned.
SummaryAfterBroadcast(context, b) ==
    [context |-> IF b.call_sid # <<>> THEN Remove(context, b.call_sid) ELSE context,
     response |-> Ok(b.delivered_clients)]

AfterBroadcast(context, b) ==
    IF b.handler = "transcription"
    THEN TranscriptionAfterBroadcast(context, b)
    ELSE SummaryAfterBroadcast(context, b)

\* _broadcast_to_compliance up to its first await: with no observer it returns at once.
StartBroadcast(r, context, b) ==
    IF b.snapshot = {}
    THEN LET after == AfterBroadcast(context, b)
         IN  /\ http' = [http EXCEPT ![r] = Done(b, after.response)]
             /\ inbound_transcript_context' = after.context
    ELSE /\ http' = [http EXCEPT ![r] = b]
         /\ inbound_transcript_context' = context

Free(r) == http[r].pc \in {"idle", "done"}

transcription_webhook(r, payload, reply) ==
    /\ Free(r)
    /\ UNCHANGED <<compliance_clients, compliance_open>>
    /\ IF payload.Track # "inbound_track"
       THEN /\ http' = [http EXCEPT ![r] =
                           Done(Broadcast("transcription", payload, <<>>, <<>>, {}, "skipped"),
                                Ok(0))]
            /\ UNCHANGED inbound_transcript_context
       ELSE LET call_sid == Strip(payload.CallSid)
                context ==
                    IF call_sid # <<>> /\ call_sid \notin DOMAIN inbound_transcript_context
                    THEN Put(inbound_transcript_context, call_sid, <<>>)
                    ELSE inbound_transcript_context
                context_window == IF call_sid # <<>> THEN context[call_sid] ELSE <<>>
                transcript_text == _extract_transcript_text(payload)
                verdict ==
                    IF transcript_text # <<>>
                    THEN classify_transcription_compliance(transcript_text, context_window, reply)
                    ELSE Verdict(FALSE, <<>>)
                enriched_payload ==
                    [payload |-> payload,
                     IsComplianceViolation |-> verdict.is_compliance_violation,
                     ComplianceViolations |-> verdict.compliance_violations]
            IN  StartBroadcast(r, context,
                    Broadcast("transcription", enriched_payload, call_sid, transcript_text,
                              compliance_clients,
                              IF transcript_text = <<>> THEN "skipped"
                              ELSE IF verdict.raised THEN "raised" ELSE "returned"))

summary_webhook(r, payload) ==
    /\ Free(r)
    /\ UNCHANGED <<compliance_clients, compliance_open>>
    /\ StartBroadcast(r, inbound_transcript_context,
           Broadcast("summary", payload, Strip(payload.CallSid), <<>>, compliance_clients,
                     "skipped"))

\* A send of _broadcast_to_compliance returns or raises; after the last one
\* the handler runs on to its return.
BroadcastSend(r, websocket, outcome) ==
    /\ http[r].pc = "bcast"
    /\ websocket \in http[r].pending
    /\ UNCHANGED compliance_open
    /\ LET b == BroadcastIteration(http[r], websocket, outcome)
       IN  IF b.pending # {}
           THEN /\ http' = [http EXCEPT ![r] = b]
                /\ UNCHANGED <<compliance_clients, inbound_transcript_context>>
           ELSE LET after == AfterBroadcast(inbound_transcript_context, b)
                IN  /\ compliance_clients' =
                           DiscardDisconnected(compliance_clients, b.disconnected_clients)
                    /\ inbound_transcript_context' = after.context
                    /\ http' = [http EXCEPT ![r] = Done(b, after.response)]

\* compliance_ws_endpoint: an observer connects.  A websocket that a
\* broadcast still has to send to is not a new one.
ComplianceConnect(websocket) ==
    /\ websocket \notin compliance_open
    /\ \A r \in Reqs : http[r].pc = "bcast" => websocket \notin http[r].pending
    /\ compliance_open' = compliance_open \cup {websocket}
    /\ compliance_clients' = compliance_clients \cup {websocket}
    /\ UNCHANGED <<inbound_transcript_context, http>>

\* compliance_ws_endpoint: its observer goes away.
ComplianceDisconnect(websocket) ==
    /\ websocket \in compliance_open
    /\ compliance_open' = compliance_open \ {websocket}
    /\ compliance_clients' = compliance_clients \ {websocket}
    /\ UNCHANGED <<inbound_transcript_context, http>>

TapInit ==
    /\ compliance_clients = {}
    /\ compliance_open = {}
    /\ inbound_transcript_context = <<>>
    /\ http = [r \in Reqs |-> IdleRequest]
    /\ clock = 0
    /\ arrivals = <<>>

Init == RelayInit /\ TapInit

\* The relay alone: no webhook request arrives.
Next ==
    \/ \E c \in Conns :
          WsAccept(c) /\ UNCHANGED pipeline_vars
    \/ \E c \in Conns, raw \in RawCallSids, io \in IoOutcomes, send \in SendOutcomes :
          WsSetup(c, raw, io, send) /\ UNCHANGED pipeline_vars
    \/ \E c \in Conns, raw \in RawVoicePrompts, io \in IoOutcomes, send \in SendOutcomes :
          \E reply \in LlmReplies(CurrentType(c)) :
              WsPrompt(c, raw, reply, io, send) /\ UNCHANGED pipeline_vars
    \/ \E c \in Conns, raw \in RawUtterances :
          WsInterrupt(c, raw) /\ UNCHANGED pipeline_vars
    \/ \E c \in Conns :
          WsIgnored(c) /\ UNCHANGED pipeline_vars
    \/ \E c \in Conns :
          WsNonObject(c) /\ UNCHANGED pipeline_vars
    \/ \E c \in Conns :
          WsDisconnect(c) /\ UNCHANGED pipeline_vars
    \/ \E c \in Conns, send \in SendOutcomes :
          WsSent(c, send) /\ UNCHANGED pipeline_vars
    \/ \E t \in DOMAIN tasks, io \in IoOutcomes :
          _silence_watchdog(t, io) /\ UNCHANGED pipeline_vars

Spec == Init /\ [][Next]_vars

(***************************************************************************)
(* The fan-out: two webhook requests at a time, for one call, with the     *)
(* observers coming and going while the broadcasts run.                    *)
(***************************************************************************)
FanoutTranscriptions ==
    {p \in TranscriptionPayloads :
        /\ p.Track = "inbound_track"
        /\ p.CallSid = <<"A">>
        /\ p.TranscriptionData = [kind |-> "dict", transcript |-> <<"a">>]}

FanoutReplies == {reply \in ClassifierReplies : reply.kind = "not_json"}

FanoutNext ==
    \/ \E r \in Reqs, payload \in FanoutTranscriptions, reply \in FanoutReplies :
          transcription_webhook(r, payload, reply) /\ UNCHANGED <<relay_vars, tap_history>>
    \/ \E r \in Reqs, payload \in SummaryPayloads :
          summary_webhook(r, payload) /\ UNCHANGED <<relay_vars, tap_history>>
    \/ \E r \in Reqs, websocket \in Observers, outcome \in SendOutcomes :
          BroadcastSend(r, websocket, outcome) /\ UNCHANGED <<relay_vars, tap_history>>
    \/ \E websocket \in Observers :
          ComplianceConnect(websocket) /\ UNCHANGED <<relay_vars, tap_history>>
    \/ \E websocket \in Observers :
          ComplianceDisconnect(websocket) /\ UNCHANGED <<relay_vars, tap_history>>

FanoutSpec == Init /\ [][FanoutNext]_vars

(***************************************************************************)
(* Well-formedness of the relay state.                                     *)
(***************************************************************************)
Statuses == {"in_progress", "completed", "terminated"}
Reasons == {Empty, "completed", "invalid_answers", "silence"}

RelayTypeOK ==
    /\ DOMAIN effects = DOMAIN call_states
    /\ DOMAIN streak = DOMAIN call_states
    /\ \A sid \in DOMAIN call_states :
          LET state == call_states[sid]
          IN  /\ state.question_index \in 0..Len(QUESTIONNAIRE)
              /\ DOMAIN state.answers \subseteq QuestionIds
              /\ state.status \in Statuses
              /\ state.termination_reason \in Reasons
              /\ state.terminated \in BOOLEAN
              /\ state.silence_task # NoTask =>
                    /\ state.silence_task \in DOMAIN tasks
                    /\ tasks[state.silence_task] = sid
    /\ \A c \in Conns : (ws_sending[c] # None) <=> (ws_pc[c] \notin {"closed", "recv"})

\* The live watchdog tasks that act on call_sid.
TasksOf(ts, call_sid) == {t \in DOMAIN ts : ts[t] = call_sid}

\* The entries of a finalize history that are calls of the record write, and those
\* that are hangup requests.
WriteCalls(e) == {i \in 1..Len(e) : e[i] \in {"write", "write_error"}}
HangupCalls(e) == {i \in 1..Len(e) : e[i] \in {"hangup", "hangup_error"}}

(***************************************************************************)
(* C1.  Finalize is idempotent.  For a session in the store, however many  *)
(* times finalize is invoked for it (third invalid answer, final valid     *)
(* answer, re-entry guard, watchdog), the record write is called exactly   *)
(* once if the session is latched and never before, the hangup is          *)
(* requested at most once, and a record written is the session's outcome.  *)
(***************************************************************************)
C1_FinalizeOnce ==
    \A sid \in DOMAIN call_states :
        LET state == call_states[sid]
            e == effects[sid]
        IN  /\ Cardinality(WriteCalls(e)) = (IF state.terminated THEN 1 ELSE 0)
            /\ Cardinality(HangupCalls(e)) <= 1
            /\ (\E i \in 1..Len(e) : e[i] = "write") =>
                  /\ sid \in DOMAIN answers_dir
                  /\ answers_dir[sid] =
                        [call_sid |-> sid, answers |-> state.answers, status |-> state.status,
                         termination_reason |-> state.termination_reason]

\* A latched session whose record is written and hangup requested, while a watchdog
\* task that will still fire for it is alive and a connection bound to it receives.
C1_Witness ==
    \E sid \in DOMAIN call_states :
        /\ call_states[sid].terminated
        /\ call_states[sid].termination_reason = "invalid_answers"
        /\ effects[sid] = <<"write", "hangup">>
        /\ TasksOf(tasks, sid) # {}
        /\ \E c \in Conns : ws_call_sid[c] = sid /\ ws_pc[c] = "recv"

(***************************************************************************)
(* C2.  In every finalize the record is written before the hangup is       *)
(* attempted: every hangup request in a session's finalize history comes    *)
(* directly after the successful write of its record.                      *)
(***************************************************************************)
C2_PersistBeforeHangup ==
    \A sid \in DOMAIN call_states :
        LET e == effects[sid]
        IN  \A i \in HangupCalls(e) : i > 1 /\ e[i - 1] = "write"

\* A finalize whose hangup request failed after the record was written.
C2_Witness ==
    \E sid \in DOMAIN call_states :
        /\ effects[sid] = <<"write", "hangup_error">>
        /\ sid \in DOMAIN answers_dir

(***************************************************************************)
(* C3.  Three consecutive invalid verdicts on the same question, with no   *)
(* valid verdict in between, make the session terminated with reason       *)
(* invalid_answers; fewer than three never terminate it for invalid        *)
(* answers.  streak counts the verdicts as the validator gives them.       *)
(***************************************************************************)
C3_ThreeInvalidTerminate ==
    \A sid \in DOMAIN call_states :
        LET state == call_states[sid]
        IN  /\ streak[sid] >= 3 =>
                  /\ state.status = "terminated"
                  /\ state.termination_reason = "invalid_answers"
            /\ state.termination_reason = "invalid_answers" => streak[sid] = 3

\* A session ended by three invalid verdicts on a question after the first.
C3_Witness ==
    \E sid \in DOMAIN call_states :
        /\ streak[sid] = 3
        /\ call_states[sid].question_index = 1
        /\ call_states[sid].status = "terminated"

(***************************************************************************)
(* C4.  invalidAttempts is between 0 and 3 in every state and is 3 only in *)
(* a terminated session; a step that advances questionIndex of a session   *)
(* (every valid answer does) leaves it 0.                                  *)
(***************************************************************************)
C4_Range ==
    \A sid \in DOMAIN call_states :
        LET state == call_states[sid]
        IN  /\ state.invalid_attempts_current_question \in 0..3
            /\ state.invalid_attempts_current_question = 3 => state.terminated

C4_ResetStep ==
    \A sid \in DOMAIN call_states \cap DOMAIN call_states' :
        call_states'[sid].question_index # call_states[sid].question_index =>
            call_states'[sid].invalid_attempts_current_question = 0

\* C4: invalid_attempts_current_question stays in 0..3, is 0 after every step
\* that advances the question, and is 3 only in a terminated session.
C4_InvalidAttempts == [](C4_Range) /\ [][C4_ResetStep]_vars

\* A session whose counter reached the limit on a question after the first.
C4_Witness ==
    \E sid \in DOMAIN call_states :
        /\ call_states[sid].invalid_attempts_current_question = 3
        /\ call_states[sid].question_index >= 1
        /\ call_states[sid].terminated

(***************************************************************************)
(* C6.  A prompt that gets a valid verdict on question i, not the last,    *)
(* stores the normalized answer under the id of question i, leaves the     *)
(* other answers as they were, sets questionIndex to i+1, and the text     *)
(* spoken next is the prompt of question i+1.                              *)
(***************************************************************************)
\* The prompt frame reaches the validator on a question that is not the last, and
\* the reply is a valid verdict.
C6_ValidNotLast(c, raw, reply) ==
    LET sid == ws_call_sid[c]
    IN  /\ Strip(raw) # <<>>
        /\ sid \in DOMAIN call_states
        /\ ~call_states[sid].terminated
        /\ call_states[sid].question_index + 1 < Len(QUESTIONNAIRE)
        /\ reply.kind = "json"
        /\ reply.is_valid

C6_Step ==
    \A c \in Conns, raw \in RawVoicePrompts :
        \A reply \in LlmReplies(CurrentType(c)) :
            (C6_ValidNotLast(c, raw, reply) /\ WsPrompt(c, raw, reply, Io0, "ok")) =>
                LET sid == ws_call_sid[c]
                    i == call_states[sid].question_index
                    old == call_states[sid].answers
                    id == QUESTIONNAIRE[i + 1].id
                IN  /\ sid \in DOMAIN call_states'
                    /\ call_states'[sid].question_index = i + 1
                    /\ DOMAIN call_states'[sid].answers = DOMAIN old \cup {id}
                    /\ call_states'[sid].answers[id] = reply.normalized_answer
                    /\ \A q \in DOMAIN old \ {id} : call_states'[sid].answers[q] = old[q]
                    /\ ws_sending'[c] = QUESTIONNAIRE[i + 2].prompt

\* C6: a valid answer to a question that is not the last one stores the
\* normalized answer under the question id, advances the index by one and
\* sends the prompt of the next question.
C6_ValidAnswerAdvances == [][C6_Step]_vars

\* The second answer is stored beside the first and the third question is being
\* spoken.
C6_Witness ==
    \E sid \in DOMAIN call_states, c \in Conns :
        /\ ws_call_sid[c] = sid
        /\ ws_pc[c] = "send_next"
        /\ ws_sending[c] = QUESTIONNAIRE[3].prompt
        /\ call_states[sid].question_index = 2
        /\ DOMAIN call_states[sid].answers = {"name", "public_company_employment"}
        /\ call_states[sid].answers["name"] = "Dana"
        /\ call_states[sid].answers["public_company_employment"] = "yes"

(***************************************************************************)
(* C7.  A session whose latch is true has status completed or terminated   *)
(* and a persisted record exists for its call identifier, also when the    *)
(* write of the record fails.                                              *)
(***************************************************************************)
C7_LatchedHasRecord ==
    \A sid \in DOMAIN call_states :
        call_states[sid].terminated =>
            /\ call_states[sid].status \in {"completed", "terminated"}
            /\ sid \in DOMAIN answers_dir

(***************************************************************************)
(* C8.  Terminal states are absorbing.  While the latch of a session is    *)
(* true, no step but a setup frame for its call identifier (which replaces *)
(* it) or a cleanup (which removes it) changes the session, no connection  *)
(* bound to it starts sending a message, and no watchdog task is created   *)
(* for it.                                                                 *)
(***************************************************************************)
\* The step is the handling of a setup frame for sid.
C8_SetupStep(sid) ==
    \E c \in Conns, raw \in RawCallSids, io \in IoOutcomes, send \in SendOutcomes :
        Strip(raw) = sid /\ WsSetup(c, raw, io, send)

C8_Step ==
    \A sid \in DOMAIN call_states :
        (call_states[sid].terminated /\ ~C8_SetupStep(sid)) =>
            /\ sid \in DOMAIN call_states' => call_states'[sid] = call_states[sid]
            /\ \A c \in Conns :
                  ws_call_sid[c] = sid =>
                      (ws_sending'[c] = None \/ ws_sending'[c] = ws_sending[c])
            /\ TasksOf(tasks', sid) \subseteq TasksOf(tasks, sid)

\* C8: once a session is completed or terminated, no step changes its status,
\* its answers or its question index, and none starts a silence timer for it.
C8_TerminalAbsorbing == [][C8_Step]_vars

\* A latched session with a connection bound to it that receives, another that is
\* still suspended in a send for it, and a watchdog task alive for it.
C8_Witness ==
    \E sid \in DOMAIN call_states :
        /\ call_states[sid].terminated
        /\ \E c \in Conns : ws_call_sid[c] = sid /\ ws_pc[c] = "recv"
        /\ \E c \in Conns : ws_call_sid[c] = sid /\ ws_pc[c] = "send_retry"
        /\ TasksOf(tasks, sid) # {}

(***************************************************************************)
(* The relay with no prompt frame and connections that stay open: no       *)
(* disconnect, no frame that raises, no send that raises.  An accepted     *)
(* send returns, and the sleep of a watchdog task that is not cancelled    *)
(* ends: the event loop runs both.                                         *)
(***************************************************************************)
\* The call identifiers of the setup frames.
CallSids == {Strip(raw) : raw \in RawCallSids} \ {<<>>}

\* The ids a watchdog task can have.
TaskIds == 1..(MaxTasks + 2)

SilenceNext ==
    \/ \E c \in Conns : WsAccept(c) /\ UNCHANGED pipeline_vars
    \/ \E c \in Conns, raw \in RawCallSids :
          WsSetup(c, raw, Io0, "ok") /\ UNCHANGED pipeline_vars
    \/ \E c \in Conns, raw \in RawUtterances :
          WsInterrupt(c, raw) /\ UNCHANGED pipeline_vars
    \/ \E c \in Conns : WsIgnored(c) /\ UNCHANGED pipeline_vars
    \/ \E c \in Conns : WsSent(c, "ok") /\ UNCHANGED pipeline_vars
    \/ \E t \in DOMAIN tasks, io \in IoOutcomes :
          _silence_watchdog(t, io) /\ UNCHANGED pipeline_vars

SilenceSpec ==
    /\ Init
    /\ [][SilenceNext]_vars
    /\ \A c \in Conns : WF_vars(WsSent(c, "ok") /\ UNCHANGED pipeline_vars)
    /\ \A t \in TaskIds :
          WF_vars(\E io \in IoOutcomes : _silence_watchdog(t, io) /\ UNCHANGED pipeline_vars)

(***************************************************************************)
(* C5.  After a setup, if no prompt arrives and the connection stays open, *)
(* the session of the call identifier eventually has status terminated     *)
(* with termination_reason silence.                                        *)
(***************************************************************************)
C5_Silenced(sid) ==
    /\ sid \in DOMAIN call_states
    /\ call_states[sid].status = "terminated"
    /\ call_states[sid].termination_reason = "silence"
    /\ call_states[sid].terminated

\* C5: a session that is set up and receives no prompt, on a connection that
\* stays open, is eventually terminated with termination_reason silence.
C5_SilenceTerminates ==
    \A sid \in CallSids : (sid \in DOMAIN call_states) ~> C5_Silenced(sid)

\* The watchdog of a session fired: it is terminated for silence, its own task
\* is gone and its record is written.
C5_Witness ==
    \E sid \in CallSids :
        /\ C5_Silenced(sid)
        /\ call_states[sid].silence_task = NoTask
        /\ sid \in DOMAIN answers_dir
        /\ answers_dir[sid].termination_reason = "silence"

(***************************************************************************)
(* The transcription events against a clock.  Every payload of the model   *)
(* is a final transcription-content event; arrivals records, for each      *)
(* event, its normalized text, the clock reading at which it arrived and   *)
(* the observers its handler fanned it out to.                             *)
(***************************************************************************)
MaxClock == 2

MaxArrivals == 2

RECURSIVE CollapseWhitespace(_)
\* Every run of whitespace becomes one space.
CollapseWhitespace(s) ==
    IF s = <<>> THEN <<>>
    ELSE IF Head(s) \in Whitespace
         THEN IF Len(s) > 1 /\ s[2] \in Whitespace
              THEN CollapseWhitespace(Tail(s))
              ELSE <<" ">> \o CollapseWhitespace(Tail(s))
         ELSE <<Head(s)>> \o CollapseWhitespace(Tail(s))

\* The case-folded, whitespace-collapsed transcript text.
NormalizedTranscriptKey(payload) ==
    Lower(CollapseWhitespace(_extract_transcript_text(payload)))

DedupTranscriptions ==
    {p \in TranscriptionPayloads :
        /\ p.Track = "inbound_track"
        /\ p.CallSid = <<"A">>
        /\ _extract_transcript_text(p) # <<>>}

Tick ==
    /\ clock < MaxClock
    /\ clock' = clock + 1
    /\ UNCHANGED <<relay_vars, tap_vars, arrivals>>

Arrival(r, payload, reply) ==
    /\ Len(arrivals) < MaxArrivals
    /\ transcription_webhook(r, payload, reply)
    /\ arrivals' = Append(arrivals, [key |-> NormalizedTranscriptKey(payload),
                                     at |-> clock,
                                     observers |-> http'[r].snapshot])
    /\ UNCHANGED <<relay_vars, clock>>

DedupNext ==
    \/ Tick
    \/ \E payload \in DedupTranscriptions, reply \in FanoutReplies : Arrival(1, payload, reply)
    \/ \E websocket \in Observers, outcome \in SendOutcomes :
          BroadcastSend(1, websocket, outcome) /\ UNCHANGED <<relay_vars, tap_history>>
    \/ \E websocket \in Observers :
          ComplianceConnect(websocket) /\ UNCHANGED <<relay_vars, tap_history>>
    \/ \E websocket \in Observers :
          ComplianceDisconnect(websocket) /\ UNCHANGED <<relay_vars, tap_history>>

DedupSpec == Init /\ [][DedupNext]_vars

\* C9.  Of two final transcription events with the same normalized text that
\* arrive at the same clock reading, hence within the window of any TTL, only
\* one is delivered to observers.
C9_OneDeliveryWithinWindow ==
    \A i, j \in DOMAIN arrivals :
        (/\ i < j
         /\ arrivals[i].key = arrivals[j].key
         /\ arrivals[i].at = arrivals[j].at)
        => ~(arrivals[i].observers # {} /\ arrivals[j].observers # {})

(***************************************************************************)
(* C10.  A broadcast that has returned sent to every observer of its       *)
(* snapshot, whatever the other sends did: each observer of the snapshot   *)
(* either received the event or is in disconnected_clients.  The value it  *)
(* returned, which the handler reports as delivered_clients, is the number *)
(* of observers that received the event.  The step on which it returns     *)
(* removes from compliance_clients exactly its disconnected_clients.       *)
(***************************************************************************)
C10_Returned(r) ==
    http[r].pc = "done" =>
        /\ http[r].sent_to \cup http[r].disconnected_clients = http[r].snapshot
        /\ http[r].sent_to \cap http[r].disconnected_clients = {}
        /\ http[r].delivered_clients = Cardinality(http[r].sent_to)
        /\ http[r].response.status = "200" =>
               http[r].response.delivered_clients = Cardinality(http[r].sent_to)

C10_Removal ==
    \A r \in Reqs :
        (http[r].pc = "bcast" /\ http'[r].pc = "done") =>
            compliance_clients' = compliance_clients \ http'[r].disconnected_clients

\* C10: the fan-out reaches every observer whose send succeeds, removes exactly
\* the observers whose send failed and returns the number of successful sends.
C10_FanOut == [](\A r \in Reqs : C10_Returned(r)) /\ [][C10_Removal]_vars

\* A broadcast to two observers returned: one send succeeded, the other one
\* failed; the handler reported one delivery and only the failed observer left
\* compliance_clients.
C10_Witness ==
    \E r \in Reqs :
        /\ http[r].pc = "done"
        /\ http[r].snapshot = Observers
        /\ Cardinality(http[r].sent_to) = 1
        /\ Cardinality(http[r].disconnected_clients) = 1
        /\ http[r].response = Ok(1)
        /\ compliance_clients = http[r].sent_to

(***************************************************************************)
(* The pipeline with one webhook request at a time, every payload and      *)
(* every reply of the classifier.                                          *)
(***************************************************************************)
PipelineNext ==
    \/ \E payload \in TranscriptionPayloads, reply \in ClassifierReplies :
          transcription_webhook(1, payload, reply) /\ UNCHANGED <<relay_vars, tap_history>>
    \/ \E payload \in SummaryPayloads :
          summary_webhook(1, payload) /\ UNCHANGED <<relay_vars, tap_history>>
    \/ \E websocket \in Observers, outcome \in SendOutcomes :
          BroadcastSend(1, websocket, outcome) /\ UNCHANGED <<relay_vars, tap_history>>
    \/ \E websocket \in Observers :
          ComplianceConnect(websocket) /\ UNCHANGED <<relay_vars, tap_history>>
    \/ \E websocket \in Observers :
          ComplianceDisconnect(websocket) /\ UNCHANGED <<relay_vars, tap_history>>

PipelineSpec == Init /\ [][PipelineNext]_vars

\* The context snippets the classifier was given for the event that request r
\* is fanning out: with one request at a time the context of the call is what
\* it was when the handler read it.
ContextGiven(r) ==
    IF http[r].call_sid = <<>> THEN <<>> ELSE inbound_transcript_context[http[r].call_sid]

\* phrase occurs, up to case, in text.
OccursIn(phrase, text) == Contains(Lower(phrase), Lower(text))

\* C11.  Every violation phrase that goes out with an event occurs, up to
\* case, in the current text or in one of the context snippets given to the
\* classifier, and no two phrases are equal up to case.
C11_PhrasesLiterallyPresent ==
    (http[1].pc = "bcast" /\ http[1].handler = "transcription") =>
        LET phrases == http[1].message.ComplianceViolations
            snippets == ContextGiven(1)
        IN  /\ \A i \in DOMAIN phrases :
                  \/ OccursIn(phrases[i], http[1].transcript_text)
                  \/ \E k \in DOMAIN snippets : OccursIn(phrases[i], snippets[k])
            /\ \A i, j \in DOMAIN phrases :
                  i # j => Lower(phrases[i]) # Lower(phrases[j])

(***************************************************************************)
(* C12.  A malformed frame is dropped.  A frame that is not JSON is the    *)
(* step WsIgnored; a frame that is JSON but no object (a list, a number, a *)
(* string) is the step WsNonObject.  After either, a connection that has a *)
(* session receives the next frame, and the sessions and the watchdog      *)
(* tasks are what they were.                                               *)
(***************************************************************************)
\* The relay whose connections end only by a frame that is JSON but no object:
\* no disconnect, no send that raises, no finalize that raises.
MalformedNext ==
    \/ \E c \in Conns : WsAccept(c) /\ UNCHANGED pipeline_vars
    \/ \E c \in Conns, raw \in RawCallSids :
          WsSetup(c, raw, Io0, "ok") /\ UNCHANGED pipeline_vars
    \/ \E c \in Conns : WsIgnored(c) /\ UNCHANGED pipeline_vars
    \/ \E c \in Conns : WsNonObject(c) /\ UNCHANGED pipeline_vars
    \/ \E c \in Conns : WsSent(c, "ok") /\ UNCHANGED pipeline_vars
    \/ \E t \in DOMAIN tasks : _silence_watchdog(t, Io0) /\ UNCHANGED pipeline_vars

MalformedSpec == Init /\ [][MalformedNext]_vars

C12_Step ==
    \A c \in Conns :
        (/\ ws_pc[c] = "recv"
         /\ ws_call_sid[c] \in DOMAIN call_states
         /\ (WsIgnored(c) \/ WsNonObject(c))) =>
            /\ ws_pc'[c] = "recv"
            /\ call_states' = call_states
            /\ tasks' = tasks

\* C12: a malformed inbound frame leaves the receive loop running and the
\* session in the store, unchanged.
C12_MalformedDropped == [][C12_Step]_vars

(***************************************************************************)
(* C13.  A prompt or interrupt frame on a connection whose call identifier *)
(* has no session in the store (none was set up on the connection, or the  *)
(* session was removed by the cleanup of another connection) is a no-op:   *)
(* no session, watchdog task, record or finalize history changes, no       *)
(* message is sent and the connection goes on receiving.                   *)
(***************************************************************************)
C13_NoSession(c) ==
    /\ ws_pc[c] = "recv"
    /\ ws_call_sid[c] \notin DOMAIN call_states

C13_Frame(c) ==
    \/ \E raw \in RawVoicePrompts, io \in IoOutcomes, send \in SendOutcomes :
          \E reply \in LlmReplies(CurrentType(c)) : WsPrompt(c, raw, reply, io, send)
    \/ \E raw \in RawUtterances : WsInterrupt(c, raw)

C13_Step == \A c \in Conns : (C13_NoSession(c) /\ C13_Frame(c)) => UNCHANGED relay_vars

\* C13: a prompt or interrupt frame for which there is no session changes
\* nothing, sends nothing, starts no timer and triggers no termination.
C13_NoSessionNoEffect == [][C13_Step]_vars

\* Two connections that receive with no session behind them: one on which no
\* setup succeeded, one whose call identifier lost its session.
C13_Witness ==
    \E c, d \in Conns :
        /\ C13_NoSession(c) /\ ws_call_sid[c] = <<>>
        /\ C13_NoSession(d) /\ ws_call_sid[d] # <<>>

(***************************************************************************)
(* C14.  A setup frame whose callSid is not empty once stripped leaves the *)
(* identifier mapped to a fresh session, whatever session it had: when the *)
(* handler is suspended in the send of the first question the session is   *)
(* FreshSession.  Setup is idempotent on the store: handling the same      *)
(* frame again gives the store that handling it once gives.                *)
(***************************************************************************)
C14_Step ==
    \A c \in Conns, raw \in RawCallSids :
        (Strip(raw) # <<>> /\ WsSetup(c, raw, Io0, "ok")) =>
            /\ Strip(raw) \in DOMAIN call_states'
            /\ call_states'[Strip(raw)] = FreshSession
            /\ ws_call_sid'[c] = Strip(raw)

C14_Idempotent ==
    \A raw \in RawCallSids :
        LET once == handle_setup_message(World, raw).w
            twice == handle_setup_message(once, raw).w
        IN  /\ twice.cs = once.cs
            /\ Strip(raw) # <<>> => once.cs[Strip(raw)] = FreshSession

\* C14: setup maps the call identifier to a fresh session whatever its prior
\* state was, and a second setup gives the same session state as the first.
C14_SetupFresh == [](C14_Idempotent) /\ [][C14_Step]_vars

\* A setup frame replaced a session that had been finalized: the session is
\* fresh and being asked the first question, the record of the old session is
\* on disk and the watchdog task of the old session is still alive.
C14_Witness ==
    \E sid \in DOMAIN call_states, c \in Conns :
        /\ call_states[sid] = FreshSession
        /\ ws_call_sid[c] = sid
        /\ ws_pc[c] = "send_question"
        /\ sid \in DOMAIN answers_dir
        /\ TasksOf(tasks, sid) # {}

(***************************************************************************)
(* C16.  At most one live silence timer can act on a call identifier: the  *)
(* watchdog tasks that are not done and were created for it are at most    *)
(* one, since starting a timer and a setup frame for an identifier that    *)
(* has a live timer cancel the previous one.                               *)
(***************************************************************************)
C16_OneLiveTimer ==
    \A sid \in CallSids : Cardinality(TasksOf(tasks, sid)) <= 1

(***************************************************************************)
(* The relay with two call ids, so that a connection can replace the id it *)
(* is bound to by a later setup frame.  Sends succeed, the finalize calls  *)
(* succeed and no prompt arrives: what is left is setup, the question,     *)
(* the disconnect and the watchdog.                                        *)
(***************************************************************************)
ReplacedCallSids == {<<"A">>, <<"B">>}

ReplacedNext ==
    \/ \E c \in Conns : WsAccept(c) /\ UNCHANGED pipeline_vars
    \/ \E c \in Conns, raw \in ReplacedCallSids :
          WsSetup(c, raw, Io0, "ok") /\ UNCHANGED pipeline_vars
    \/ \E c \in Conns : WsSent(c, "ok") /\ UNCHANGED pipeline_vars
    \/ \E c \in Conns : WsDisconnect(c) /\ UNCHANGED pipeline_vars
    \/ \E t \in DOMAIN tasks : _silence_watchdog(t, Io0) /\ UNCHANGED pipeline_vars

ReplacedSpec == Init /\ [][ReplacedNext]_vars

\* Every connection there was has been cleaned up.
C17_AllCleanedUp == \A c \in Conns : ws_pc[c] = "closed"

(***************************************************************************)
(* C17.  After the cleanup of a connection no silence timer is live for a  *)
(* call id that was set up on it, an id replaced by a later setup on the   *)
(* same connection included: once every connection is cleaned up no        *)
(* watchdog task is live, and no step taken from there terminates a        *)
(* session, writes a record or requests a hangup.                          *)
(***************************************************************************)
C17_NoTimerAfterCleanup ==
    /\ [](C17_AllCleanedUp => tasks = <<>>)
    /\ [][C17_AllCleanedUp =>
             UNCHANGED <<call_states, answers_dir, effects>>]_vars

\* The session a prompt frame on connection c would be handled for: the connection
\* is bound to a call id whose session is in the store and not terminated.
C18_Active(c) ==
    /\ ws_pc[c] = "recv"
    /\ ws_call_sid[c] \in DOMAIN call_states
    /\ ~call_states[ws_call_sid[c]].terminated

(***************************************************************************)
(* C18.  A prompt frame for a bound, existing, non-terminated session      *)
(* cancels the pending silence timer, whatever its voicePrompt text, the   *)
(* empty and the whitespace-only text included: wherever such a frame can  *)
(* be received while a timer is pending, the handler leaves that timer's   *)
(* task cancelled for every text and every validator reply.                *)
(***************************************************************************)
C18_PromptCancelsTimer ==
    \A c \in Conns, raw \in RawVoicePrompts :
      \A reply \in LlmReplies(CurrentType(c)) :
        (C18_Active(c) /\ call_states[ws_call_sid[c]].silence_task \in DOMAIN tasks) =>
            call_states[ws_call_sid[c]].silence_task \notin
                DOMAIN handle_prompt_message(World, ws_call_sid[c], raw, reply, Io0).w.tasks

\* The prompt frame reaches the validator, which raises.
C19_ValidatorRaises(c, raw, reply) ==
    /\ C18_Active(c)
    /\ Strip(raw) # <<>>
    /\ reply.kind = "error"

C19_Step ==
    \A c \in Conns, raw \in RawVoicePrompts :
        \A reply \in LlmReplies(CurrentType(c)) :
            (C19_ValidatorRaises(c, raw, reply) /\ WsPrompt(c, raw, reply, Io0, "ok")) =>
                LET sid == ws_call_sid[c]
                    old == call_states[sid]
                IN  /\ sid \in DOMAIN call_states'
                    /\ call_states'[sid].question_index = old.question_index
                    /\ call_states'[sid].answers = old.answers
                    /\ call_states'[sid].invalid_attempts_current_question =
                           old.invalid_attempts_current_question
                    /\ call_states'[sid].status = old.status
                    /\ call_states'[sid].terminated = old.terminated
                    /\ streak'[sid] = streak[sid]
                    /\ UNCHANGED <<answers_dir, effects>>
                    /\ ws_pc'[c] = "send_error"
                    /\ ws_sending'[c] = "I had trouble validating that response. "
                                            \o QUESTIONNAIRE[old.question_index + 1].prompt

\* Once that message is out the handler returns: nothing else is said and the
\* session is as it was.
C19_SentStep ==
    \A c \in Conns :
        (ws_pc[c] = "send_error" /\ WsSent(c, "ok")) =>
            /\ ws_pc'[c] = "recv"
            /\ ws_sending'[c] = None
            /\ call_states' = call_states

(***************************************************************************)
(* C19.  When the validator raises on a prompt, questionIndex, answers,    *)
(* invalidAttempts, status and the latch of the session are unchanged and  *)
(* no invalid verdict is counted; exactly one message is spoken, the error *)
(* text followed by the prompt of the same question, after which the       *)
(* handler returns.                                                        *)
(***************************************************************************)
C19_ValidatorFailureRecoverable == [][C19_Step /\ C19_SentStep]_vars

\* The error message is being spoken on the second question to a session with
\* two invalid attempts, which the failure left at two.
C19_Witness ==
    \E c \in Conns :
        /\ ws_pc[c] = "send_error"
        /\ ws_call_sid[c] \in DOMAIN call_states
        /\ call_states[ws_call_sid[c]].question_index = 1
        /\ call_states[ws_call_sid[c]].invalid_attempts_current_question = 2
        /\ streak[ws_call_sid[c]] = 2
        /\ ~call_states[ws_call_sid[c]].terminated
        /\ ws_sending[c] = "I had trouble validating that response. "
                               \o QUESTIONNAIRE[2].prompt

\* The record is written and the hangup request raises.
C20_HangupFails == [persist |-> "ok", hangup |-> "raise"]

\* The session of sid is latched with an outcome and its record is that outcome.
C20_Finalized(cs, dir, sid) ==
    /\ sid \in DOMAIN cs
    /\ cs[sid].terminated
    /\ cs[sid].status \in {"completed", "terminated"}
    /\ cs[sid].termination_reason \in {"completed", "invalid_answers", "silence"}
    /\ sid \in DOMAIN dir
    /\ dir[sid] = [call_sid |-> sid, answers |-> cs[sid].answers,
                   status |-> cs[sid].status,
                   termination_reason |-> cs[sid].termination_reason]

\* A prompt handler that finalizes with a failing hangup is back in the receive
\* loop with the session in the store.
C20_PromptStep ==
    \A c \in Conns, raw \in RawVoicePrompts :
        \A reply \in LlmReplies(CurrentType(c)) :
            (C18_Active(c) /\ WsPrompt(c, raw, reply, C20_HangupFails, "ok")) =>
                /\ ws_pc'[c] = "recv"
                /\ ws_call_sid'[c] = ws_call_sid[c]
                /\ C20_Finalized(call_states', answers_dir', ws_call_sid[c])
                /\ effects'[ws_call_sid[c]] = <<"write", "hangup_error">>

\* A watchdog that finalizes with a failing hangup ends as a task that is done,
\* and touches no connection.
C20_WatchdogStep ==
    \A t \in DOMAIN tasks :
        (/\ tasks[t] \in DOMAIN call_states
         /\ ~call_states[tasks[t]].terminated
         /\ _silence_watchdog(t, C20_HangupFails)) =>
            /\ t \notin DOMAIN tasks'
            /\ C20_Finalized(call_states', answers_dir', tasks[t])
            /\ call_states'[tasks[t]].termination_reason = "silence"
            /\ effects'[tasks[t]] = <<"write", "hangup_error">>
            /\ UNCHANGED <<ws_pc, ws_call_sid, ws_sending>>

\* A session whose hangup failed stays as finalize left it.
C20_Stays ==
    \A sid \in DOMAIN call_states :
        (\E i \in DOMAIN effects[sid] : effects[sid][i] = "hangup_error") =>
            C20_Finalized(call_states, answers_dir, sid)

(***************************************************************************)
(* C20.  A failure of the hangup request during finalize does not leave    *)
(* finalize: the session is and stays latched with its status and reason,  *)
(* its record is and stays persisted, and the caller completes normally,   *)
(* the prompt handler back in the receive loop of its connection, the      *)
(* watchdog as a finished task.                                            *)
(***************************************************************************)
C20_HangupFailureContained ==
    /\ [](C20_Stays)
    /\ [][C20_PromptStep /\ C20_WatchdogStep]_vars

\* A connection that is receiving again after its prompt handler finalized the
\* session on the third invalid answer and the hangup request raised.
C20_Witness ==
    \E c \in Conns :
        /\ ws_pc[c] = "recv"
        /\ ws_call_sid[c] \in DOMAIN call_states
        /\ call_states[ws_call_sid[c]].termination_reason = "invalid_answers"
        /\ effects[ws_call_sid[c]] = <<"write", "hangup_error">>
        /\ C20_Finalized(call_states, answers_dir, ws_call_sid[c])

\* The context window of a call, an absent one being empty.
C21_Window(context, call_sid) ==
    IF call_sid \in DOMAIN context THEN context[call_sid] ELSE <<>>

(***************************************************************************)
(* C21.  The transcript text of an event is appended to the context window *)
(* of its call only when its classification succeeded or was skipped: the  *)
(* step on which a transcription handler whose classifier raised returns   *)
(* leaves every context window as it was.                                  *)
(***************************************************************************)
C21_RaisedLeavesContext ==
    [][(/\ http'[1] # http[1]
        /\ http'[1].pc = "done"
        /\ http'[1].handler = "transcription"
        /\ http'[1].classified = "raised") =>
           \A call_sid \in DOMAIN inbound_transcript_context
                           \cup DOMAIN inbound_transcript_context' :
               C21_Window(inbound_transcript_context', call_sid) =
                   C21_Window(inbound_transcript_context, call_sid)]_vars

\* The handler of a transcription event whose classifier raises starts.
C23_RaisedStarts(payload, reply) ==
    /\ payload.Track = "inbound_track"
    /\ _extract_transcript_text(payload) # <<>>
    /\ reply.kind \in {"error", "not_object"}
    /\ transcription_webhook(1, payload, reply)

\* The event goes to every observer there is, unflagged and with no phrase; with
\* no observer the handler has returned at once.
C23_Step ==
    \A payload \in TranscriptionPayloads, reply \in ClassifierReplies :
        C23_RaisedStarts(payload, reply) =>
            /\ http'[1].handler = "transcription"
            /\ http'[1].classified = "raised"
            /\ http'[1].snapshot = compliance_clients
            /\ IF compliance_clients = {}
               THEN http'[1].pc = "done" /\ http'[1].response = Ok(0)
               ELSE /\ http'[1].pc = "bcast"
                    /\ http'[1].pending = compliance_clients
                    /\ http'[1].message.payload = payload
                    /\ http'[1].message.IsComplianceViolation = FALSE
                    /\ http'[1].message.ComplianceViolations = <<>>

\* A handler whose classifier raised sends to the observers it still has to send
\* to and returns the normal response.
C23_Returns ==
    (http[1].pc \in {"bcast", "done"} /\ http[1].classified = "raised") =>
        IF http[1].pc = "done"
        THEN /\ http[1].response = Ok(http[1].delivered_clients)
             /\ http[1].sent_to \cup http[1].disconnected_clients = http[1].snapshot
        ELSE http[1].pending # {}

(***************************************************************************)
(* C23.  When the classifier raises for a transcription event the failure  *)
(* stays in the handler: the event is fanned out to the observers with the *)
(* violation flag false and no phrase, and the webhook returns its normal  *)
(* response, ok with the number of observers that received the event.      *)
(***************************************************************************)
C23_ClassifierFailureIsolated == [](C23_Returns) /\ [][C23_Step]_vars

\* The handler of an event whose classifier raised has returned after one
\* observer received the event and the send to the other raised.
C23_Witness ==
    /\ http[1].pc = "done"
    /\ http[1].handler = "transcription"
    /\ http[1].classified = "raised"
    /\ Cardinality(http[1].sent_to) = 1
    /\ Cardinality(http[1].disconnected_clients) = 1
    /\ http[1].response = Ok(1)

(***************************************************************************)
(* The transcription events of one call as they arrive, two requests at a  *)
(* time, no summary.  arrivals records, for each event that was            *)
(* classified, its transcript text and the context window the handler gave *)
(* to the classifier (context_window, main.py:155).                        *)
(***************************************************************************)
ContextTranscriptions ==
    {p \in TranscriptionPayloads : p.Track = "inbound_track" /\ p.CallSid = <<"A">>}

Heard(r, payload, reply) ==
    /\ Len(arrivals) < MaxArrivals
    /\ transcription_webhook(r, payload, reply)
    /\ arrivals' =
           IF _extract_transcript_text(payload) = <<>> THEN arrivals
           ELSE Append(arrivals,
                       [text |-> _extract_transcript_text(payload),
                        context_window |->
                            C21_Window(inbound_transcript_context, Strip(payload.CallSid))])
    /\ UNCHANGED <<relay_vars, clock>>

ContextNext ==
    \/ \E r \in Reqs, payload \in ContextTranscriptions, reply \in FanoutReplies :
          Heard(r, payload, reply)
    \/ \E r \in Reqs, websocket \in Observers, outcome \in SendOutcomes :
          BroadcastSend(r, websocket, outcome) /\ UNCHANGED <<relay_vars, tap_history>>
    \/ \E websocket \in Observers :
          ComplianceConnect(websocket) /\ UNCHANGED <<relay_vars, tap_history>>
    \/ \E websocket \in Observers :
          ComplianceDisconnect(websocket) /\ UNCHANGED <<relay_vars, tap_history>>

ContextSpec == Init /\ [][ContextNext]_vars

\* The last n elements of s, in order.
C22_LastUpTo(n, s) == IF Len(s) <= n THEN s ELSE SubSeq(s, Len(s) - n + 1, Len(s))

(***************************************************************************)
(* C22.  The context given to the classifier for an event is the last up   *)
(* to three non-empty transcripts of the events of the same call that      *)
(* arrived before it, oldest first, and a window never holds more than     *)
(* three snippets, also when the handling of two events of the call        *)
(* overlaps at the fan-out.                                                *)
(***************************************************************************)
C22_ContextIsPriorSnippets ==
    /\ \A i \in DOMAIN arrivals :
          arrivals[i].context_window =
              C22_LastUpTo(ContextMaxLen,
                           [k \in 1..(i - 1) |-> arrivals[k].text])
    /\ \A call_sid \in DOMAIN inbound_transcript_context :
          Len(inbound_transcript_context[call_sid]) <= ContextMaxLen

(***************************************************************************)
(* C24.  A transcription handler completes with its normal response        *)
(* whatever was handled while it was suspended in its fan-out, the summary *)
(* event of its call included: a transcription handler that has returned   *)
(* returned ok with the number of observers reached, the late append did   *)
(* not fail.                                                               *)
(***************************************************************************)
C24_LateAppendCompletes ==
    \A r \in Reqs :
        (http[r].pc = "done" /\ http[r].handler = "transcription") =>
            http[r].response = Ok(http[r].delivered_clients)

\* The send that ends the handling of a prompt completes: the message of the next
\* question, of a retry, or of a validator failure is out.
C25_PromptHandled(c) ==
    /\ ws_pc[c] \in {"send_next", "send_retry", "send_error"}
    /\ WsSent(c, "ok")

(***************************************************************************)
(* C25.  When the handling of a prompt ends with the session in progress   *)
(* (valid answer that is not the last, invalid answer below the limit,     *)
(* validator failure), a live silence timer exists for the call: its       *)
(* silence_task is a watchdog task that is not done, so that silence       *)
(* ends the session.                                                       *)
(***************************************************************************)
C25_TimerAfterPrompt ==
    [][\A c \in Conns :
          (/\ C25_PromptHandled(c)
           /\ ws_call_sid[c] \in DOMAIN call_states'
           /\ call_states'[ws_call_sid[c]].status = "in_progress") =>
              /\ call_states'[ws_call_sid[c]].silence_task \in DOMAIN tasks'
              /\ tasks'[call_states'[ws_call_sid[c]].silence_task] = ws_call_sid[c]]_vars

(***************************************************************************)
(* C26.  In every reachable state a session with status completed has      *)
(* termination_reason completed, questionIndex equal to the number of      *)
(* questions and an answer stored for every question id; and the status    *)
(* of a session is in_progress exactly when its termination_reason is      *)
(* empty and its latch is false.                                           *)
(***************************************************************************)
C26_StatusConsistent ==
    \A sid \in DOMAIN call_states :
        LET state == call_states[sid]
        IN  /\ state.status = "completed" =>
                  /\ state.termination_reason = "completed"
                  /\ state.question_index = Len(QUESTIONNAIRE)
                  /\ DOMAIN state.answers = QuestionIds
            /\ state.status = "in_progress" <=>
                  (state.termination_reason = Empty /\ ~state.terminated)

\* A session that completed with an answer to every question.
C26_Witness ==
    \E sid \in DOMAIN call_states :
        /\ call_states[sid].status = "completed"
        /\ call_states[sid].terminated
        /\ DOMAIN call_states[sid].answers = QuestionIds

====
